---------------------------- MODULE Spec2Model ----------------------------
(***************************************************************************)
(* State-machine model of api/create-draft-order.js: the serverless        *)
(* handler that resolves a customer's loyalty tier on the server, builds a *)
(* draft-order payload with the server-computed discount and POSTs it to   *)
(* the shop's Admin API with retry/backoff, using a process-wide           *)
(* time-bounded cache of the tier configuration.                           *)
(*                                                                         *)
(* Every await of the source is a step of the model: a request suspends at *)
(* each remote call and at each retry delay; the remote stores answer      *)
(* nondeterministically.  Time is the value of Date.now() in milliseconds. *)
(* Money is kept in integer units, percents are integers.                  *)
(***************************************************************************)
EXTENDS Integers, Sequences, FiniteSets, TLC

(***************************************************************************)
(* Program constants (create-draft-order.js lines 13, 14, 19).             *)
(***************************************************************************)
MAX_RETRIES == 3
INITIAL_RETRY_DELAY == 1000
CACHE_TTL == 5 * 60 * 1000

(***************************************************************************)
(* Bounds of the model.                                                    *)
(***************************************************************************)
\* largest threshold / total_spent magnitude the small-number domain holds
MaxThreshold == 2
MaxSpent == 3
\* how far below zero thresholds and total_spent may go
NegDepth == 1
\* the clock stops advancing here
MaxTime == 620000
\* admin edits of the theme settings during a run
MaxEdits == 1

Req == {"r1", "r2"}

RECURSIVE Pow2(_)
Pow2(k) == IF k = 0 THEN 1 ELSE 2 * Pow2(k - 1)

(***************************************************************************)
(* Strings.  Tags are drawn from a small alphabet; toUpperCase and trim    *)
(* are tabulated on it.                                                    *)
(***************************************************************************)
toUpperCase(s) ==
    CASE s = "gold"   -> "GOLD"
      [] s = "Gold"   -> "GOLD"
      [] s = " gold " -> " GOLD "
      [] s = " Gold"  -> " GOLD"
      [] s = "vip"    -> "VIP"
      [] s = "member" -> "MEMBER"
      [] OTHER        -> s

trim(s) ==
    CASE s = " gold " -> "gold"
      [] s = " GOLD " -> "GOLD"
      [] s = " Gold"  -> "Gold"
      [] s = " GOLD"  -> "GOLD"
      [] OTHER        -> s

(***************************************************************************)
(* Theme settings (settings_data.json "current").  A slot is a record      *)
(* holding the sub-fields that are present: an absent sub-field is an      *)
(* absent key.                                                             *)
(***************************************************************************)
\* x || dflt  on strings: the empty string and an absent field are falsy
OrStr(slot, f, dflt) ==
    IF f \in DOMAIN slot /\ slot[f] # "" THEN slot[f] ELSE dflt

\* x || 0  on numbers: 0 and an absent field are falsy
\* (parseFloat(x) || 0 is the same on numbers; an absent field parses to NaN)
OrNum(slot, f) ==
    IF f \in DOMAIN slot /\ slot[f] # 0 THEN slot[f] ELSE 0

DefaultNames == <<"BLACK DIAMOND", "DIAMOND", "PLATINUM", "GOLD", "SILVER", "MEMBER">>

\* Mutant of BuildTier: every slot takes its tag from its name field, as
\* slot 6 does.
BuildTierTagFromName(slot, i) ==
    [name      |-> OrStr(slot, "name", DefaultNames[i]),
     tag       |-> OrStr(slot, "name", DefaultNames[i]),
     discount  |-> OrNum(slot, "discount"),
     threshold |-> IF i = 6 THEN 0 ELSE OrNum(slot, "threshold")]

\* One entry of tierConfig.tiers (lines 83-118).  Slot 6 takes its tag from
\* tier_6_name and its threshold is the literal 0.
BuildTier(slot, i) ==
    [name      |-> OrStr(slot, "name", DefaultNames[i]),
     tag       |-> IF i = 6 THEN OrStr(slot, "name", DefaultNames[i])
                            ELSE OrStr(slot, "tag", DefaultNames[i]),
     discount  |-> OrNum(slot, "discount"),
     threshold |-> IF i = 6 THEN 0 ELSE OrNum(slot, "threshold")]

\* tierConfig built from the parsed settings (lines 80-120)
BuildTierConfig(settings) ==
    [prioritize_tags |-> ("prioritize" \in DOMAIN settings /\ settings.prioritize),
     tiers |-> [i \in 1..6 |-> BuildTier(settings.slots[i], i)]]

Tier(n, t, d, th) == [name |-> n, tag |-> t, discount |-> d, threshold |-> th]

getDefaultTierConfig ==
    [prioritize_tags |-> TRUE,
     tiers |-> << Tier("BLACK DIAMOND", "BLACK DIAMOND", 10, 1000000),
                  Tier("DIAMOND", "DIAMOND", 8, 3000),
                  Tier("PLATINUM", "PLATINUM", 6, 1500),
                  Tier("GOLD", "GOLD", 4, 500),
                  Tier("SILVER", "SILVER", 2, 150),
                  Tier("MEMBER", "MEMBER", 0, 0) >>]

\* cachedTierConfig = null
NoConfig == [prioritize_tags |-> FALSE, tiers |-> << >>]


(***************************************************************************)
(* getCustomerTier: the resolution proper (lines 189-223).                 *)
(***************************************************************************)
\* tier: null
NullTier == "<null>"

\* customerTags (line 190): the comma-separated segments, trimmed, upper-cased
CustomerTags(segments) ==
    [i \in 1..Len(segments) |-> toUpperCase(trim(segments[i]))]

Includes(seq, x) == \E i \in 1..Len(seq) : seq[i] = x

\* Mutant of SpendStep: the spend is compared with the threshold the wrong
\* way round.
SpendStepInverted(acc, tier, totalSpent) ==
    IF totalSpent <= tier.threshold /\ tier.threshold > acc.maxThreshold
    THEN [tier |-> tier.name, discount |-> tier.discount, maxThreshold |-> tier.threshold]
    ELSE acc

\* One iteration of the spend loop (lines 203-207) on the accumulator
\* (tierFromSpent, discountFromSpent, maxThreshold).
SpendStep(acc, tier, totalSpent) ==
    IF totalSpent >= tier.threshold /\ tier.threshold > acc.maxThreshold
    THEN [tier |-> tier.name, discount |-> tier.discount, maxThreshold |-> tier.threshold]
    ELSE acc

RECURSIVE SpendLoop(_, _, _, _)
SpendLoop(tiers, i, acc, totalSpent) ==
    IF i > Len(tiers) THEN acc
    ELSE SpendLoop(tiers, i + 1, SpendStep(acc, tiers[i], totalSpent), totalSpent)

\* Step 1 (lines 198-208): tierFromSpent, discountFromSpent
TierFromSpent(tiers, totalSpent) ==
    LET acc == SpendLoop(tiers, 1,
                         [tier |-> NullTier, discount |-> 0, maxThreshold |-> -1],
                         totalSpent)
    IN  [tier |-> acc.tier, discount |-> acc.discount]

\* the tiers whose tag the customer carries (line 215)
TagMatches(tiers, customerTags) ==
    {i \in 1..Len(tiers) : Includes(customerTags, toUpperCase(tiers[i].tag))}

\* Mutant of TagOverride: the scan keeps going and the last matching tier wins.
TagOverrideLastMatch(tierConfig, customerTags) ==
    LET m == TagMatches(tierConfig.tiers, customerTags)
    IN  IF tierConfig.prioritize_tags /\ m # {}
        THEN CHOOSE i \in m : \A j \in m : i >= j
        ELSE 0

\* Step 2 (lines 213-220): the index of the tier the override returns, 0 if none
TagOverride(tierConfig, customerTags) ==
    LET m == TagMatches(tierConfig.tiers, customerTags)
    IN  IF tierConfig.prioritize_tags /\ m # {}
        THEN CHOOSE i \in m : \A j \in m : i <= j
        ELSE 0

\* what getCustomerTier returns once the profile and the config are in hand
ResolveTier(customer, tierConfig) ==
    LET o == TagOverride(tierConfig, customer.customerTags)
    IN  IF o # 0
        THEN [tier |-> tierConfig.tiers[o].name, discount |-> tierConfig.tiers[o].discount]
        ELSE TierFromSpent(tierConfig.tiers, customer.totalSpent)

NoTier == [tier |-> NullTier, discount |-> 0]

(***************************************************************************)
(* The draft-order payload (lines 291-322).                                *)
(***************************************************************************)
\* Number.prototype.toString on a non-negative integer: its decimal digits
RECURSIVE toString(_)
toString(n) ==
    IF n < 10 THEN <<n>> ELSE Append(toString(n \div 10), n % 10)

\* calculateDiscountAmount (lines 434-438): price * quantity * percent / 100
\* printed with two decimals, kept here as an integer number of cents
calculateDiscountAmount(price, quantity, percent) ==
    price * quantity * percent

\* Mutant of LineItem: the client's discount_percent is used when it is sent.
LineItemTrustingClient(item, customerTier, serverDiscount) ==
    LET lineItem == [variant_id |-> item.variant_id, quantity |-> item.quantity]
        d == IF "discount_percent" \in DOMAIN item THEN item.discount_percent
             ELSE serverDiscount
    IN  IF d > 0
        THEN lineItem @@
             [applied_discount |->
                [description |-> <<customerTier, d>>,
                 value_type  |-> "percentage",
                 value       |-> toString(d),
                 amount      |-> calculateDiscountAmount(item.price, item.quantity, d)]]
        ELSE lineItem

\* Mutant of LineItem: the discount block is attached at 0 percent too.
LineItemAlwaysDiscounted(item, customerTier, serverDiscount) ==
    LET lineItem == [variant_id |-> item.variant_id, quantity |-> item.quantity]
    IN  IF serverDiscount >= 0
        THEN lineItem @@
             [applied_discount |->
                [description |-> <<customerTier, serverDiscount>>,
                 value_type  |-> "percentage",
                 value       |-> toString(serverDiscount),
                 amount      |-> calculateDiscountAmount(item.price, item.quantity,
                                                         serverDiscount)]]
        ELSE lineItem

\* one element of lineItems (lines 291-309)
LineItem(item, customerTier, serverDiscount) ==
    LET lineItem == [variant_id |-> item.variant_id, quantity |-> item.quantity]
    IN  IF serverDiscount > 0
        THEN lineItem @@
             [applied_discount |->
                [description |-> <<customerTier, serverDiscount>>,
                 value_type  |-> "percentage",
                 value       |-> toString(serverDiscount),
                 amount      |-> calculateDiscountAmount(item.price, item.quantity,
                                                         serverDiscount)]]
        ELSE lineItem

\* Mutant of CustomerInfo: the email is added whenever it is given.
CustomerInfoBoth(customer_id, customer_email) ==
    (IF customer_id # "" THEN [customer |-> [id |-> customer_id]] ELSE << >>)
    @@ (IF customer_email # "" THEN [email |-> customer_email] ELSE << >>)

\* "Add customer info" (lines 318-322): the keys added to draftOrderData
CustomerInfo(customer_id, customer_email) ==
    IF customer_id # "" THEN [customer |-> [id |-> customer_id]]
    ELSE IF customer_email # "" THEN [email |-> customer_email]
    ELSE << >>

\* draftOrderData (lines 312-322)
DraftOrderData(b, tier) ==
    [line_items |-> [i \in 1..Len(b.items) |->
                        LineItem(b.items[i], tier.tier, tier.discount)],
     use_customer_default_address |-> TRUE]
    @@ CustomerInfo(b.customer_id, b.customer_email)

\* draftOrderData before it is built
NoPayload == [line_items |-> << >>]

(***************************************************************************)
(* Item validation (lines 263-282): the 400 answer, or "ok".               *)
(***************************************************************************)
ItemError(item) ==
    IF item.variant_id = "" THEN "variant_id is required"
    ELSE IF item.quantity <= 0 THEN "quantity must be greater than 0"
    ELSE IF "price" \notin DOMAIN item \/ item.price < 0
         THEN "price must be a positive number"
    ELSE IF "discount_percent" \in DOMAIN item
            /\ (item.discount_percent < 0 \/ item.discount_percent > 100)
         THEN "discount_percent must be between 0 and 100"
    ELSE "ok"

Validate(items) ==
    IF Len(items) = 0 THEN "No items provided"
    ELSE LET bad == {i \in 1..Len(items) : ItemError(items[i]) # "ok"}
         IN  IF bad = {} THEN "ok"
             ELSE ItemError(items[CHOOSE i \in bad : \A j \in bad : i <= j])


(***************************************************************************)
(* createDraftOrderWithRetry: the decisions of one attempt (lines 369-421) *)
(***************************************************************************)
\* a JavaScript number that may be NaN
Num(n) == [nan |-> FALSE, v |-> n]
NaN == [nan |-> TRUE, v |-> 0]

\* INITIAL_RETRY_DELAY * Math.pow(2, retryCount)   (lines 373, 396, 413)
Backoff(retryCount) == INITIAL_RETRY_DELAY * Pow2(retryCount)

\* The Retry-After header: absent, delay-seconds written with one decimal
\* (tenths of a second: "2.0" is 20), or an HTTP-date `after` ms from now.
\* parseInt reads the leading integer of the text and gives NaN on a date.
parseInt(h) ==
    IF h.form = "seconds" THEN Num(h.tenths \div 10) ELSE NaN

\* line 373: retryAfter ? parseInt(retryAfter) * 1000 : backoff
Delay429(h, retryCount) ==
    IF h.form # "none"
    THEN LET n == parseInt(h) IN IF n.nan THEN NaN ELSE Num(n.v * 1000)
    ELSE Num(Backoff(retryCount))

\* sleep (lines 427-429): setTimeout fires after ms, and after 1 ms when ms is
\* NaN or below 1
sleep(ms) == IF ms.nan \/ ms.v < 1 THEN 1 ELSE ms.v

\* the duration the server asked for, in ms
ServerDelay(h) == IF h.form = "seconds" THEN h.tenths * 100 ELSE h.after

NoHeader == [form |-> "none"]
RetryAfterHeaders ==
    {NoHeader}
    \cup {[form |-> "seconds", tenths |-> t] : t \in {0, 10, 15, 20}}
    \cup {[form |-> "date", after |-> 2000]}

\* Response bodies and error messages, and String.prototype.includes('fetch')
\* tabulated on them.
BodyTexts == {"", "variant not found", "could not fetch variant"}
NetworkMessages == {"fetch failed", "socket hang up"}
IncludesFetch(text) == text \in {"could not fetch variant", "fetch failed"}

NoError == [kind |-> "none", status |-> 0, text |-> ""]
\* new Error('Shopify API rate limit exceeded. Please try again later.')
RateLimitError == [kind |-> "rate_limit", status |-> 429, text |-> ""]
\* new Error(`Shopify API error: ${response.status} - ${error}`)
ApiError(status, text) == [kind |-> "api", status |-> status, text |-> text]
\* the error fetch rejects with
NetworkError(text) == [kind |-> "network", status |-> 0, text |-> text]

\* error.message.includes('fetch')
MessageIncludesFetch(err) == err.kind \in {"api", "network"} /\ IncludesFetch(err.text)

\* Mutant of CatchRetries: network errors are retried without looking at the
\* attempt counter.
CatchRetriesUncounted(retryCount, err) == MessageIncludesFetch(err)

\* the catch block's test (line 412)
CatchRetries(retryCount, err) ==
    retryCount < MAX_RETRIES /\ MessageIncludesFetch(err)

\* the 5xx test (line 395)
ServerErrorRetries(status, retryCount) ==
    status >= 500 /\ retryCount < MAX_RETRIES

\* Mutant of RateLimitRetries: the bound is off by one.
RateLimitRetriesOnceMore(retryCount) == retryCount <= MAX_RETRIES

\* the 429 test (line 371)
RateLimitRetries(retryCount) == retryCount < MAX_RETRIES

(***************************************************************************)
(* getTierConfig: the cache test (line 28).                                *)
(***************************************************************************)
\* Mutant of CacheValid: the expiry is not looked at.
CacheValidForever(cached, expiry, t) == cached # NoConfig

CacheValid(cached, expiry, t) == cached # NoConfig /\ t < expiry

(***************************************************************************)
(* State.                                                                  *)
(***************************************************************************)
VARIABLES
    now,              \* Date.now()
    cachedTierConfig, \* line 17
    cacheExpiry,      \* line 18
    themeSettings,    \* configuration store: settings_data.json of the main theme
    edits,            \* admin edits of the settings so far
    profiles,         \* customer profile store: customer id -> profile
    pc,               \* where each request is suspended
    body,             \* req.body of each request
    customer,         \* totalSpent, customerTags of getCustomerTier
    snapshot,         \* the settings an asset response carried
    tierConfig,       \* what getTierConfig returned to the request
    cfgVia,           \* how getTierConfig answered: cache, fetch, or the failure
    resolved,         \* customerTier, serverDiscount (line 287)
    payload,          \* draftOrderData
    retryCount,       \* retryCount of the attempt in flight
    header,           \* Retry-After of the last 429 answered
    delay,            \* delay computed before the last sleep
    failedAt,         \* Date.now() when the last sleep began
    wakeAt,           \* when the timer of the last sleep fires
    issuedAt,         \* Date.now() when the attempt in flight was issued
    attempts,         \* POST attempts issued by the request
    lastError,        \* the error the last failed attempt raised or examined
    outcomes,         \* the status each attempt was answered with (0: fetch rejected)
    response,         \* res.status(...).json(...)
    themesReads,      \* GET themes.json issued, per request
    assetReads,       \* GET assets.json issued, per request
    checkedAt,        \* Date.now() at the request's cache test, -1 before it
    storedAt,         \* Date.now() when the request stored its config, -1 if never
    readAt,           \* Date.now() when the store served the request's asset read
    cachedFrom,       \* the request and the read the cached config came from
    calls,            \* the remote calls the request has issued, in order
    inFlight,         \* the remote calls of the request not yet answered
    drafts            \* remote order store: the draft orders created so far

cacheVars == <<cachedTierConfig, cacheExpiry, cachedFrom>>
storeVars == <<themeSettings, edits, profiles>>
tierVars == <<customer, snapshot, tierConfig, cfgVia, resolved, payload>>
retryVars == <<retryCount, header, delay, failedAt, wakeAt, issuedAt, attempts, lastError,
              outcomes>>
readVars == <<themesReads, assetReads, checkedAt, storedAt, readAt>>
callVars == <<calls, inFlight>>
vars == <<now, cacheVars, storeVars, pc, body, tierVars, retryVars, response, readVars,
          callVars, drafts>>

\* the fields of the 200 answer that come from the created draft order
NoDraft == [draft_order_id |-> 0, invoice_url |-> << >>, total_price |-> << >>]
NoResponse == [status |-> 0, error |-> "", message |-> NoError] @@ NoDraft
\* cachedTierConfig was never assigned
NoRead == [by |-> "", readAt |-> -1]
NoCustomer == [totalSpent |-> 0, customerTags |-> << >>]
NoSettings == [slots |-> << >>]

InitWith(bodies, settingsDom, profileDom) ==
    /\ now = 0
    /\ cachedTierConfig = NoConfig
    /\ cacheExpiry = 0
    /\ themeSettings \in settingsDom
    /\ edits = 0
    /\ profiles \in profileDom
    /\ pc = [r \in Req |-> "idle"]
    /\ body \in bodies
    /\ customer = [r \in Req |-> NoCustomer]
    /\ snapshot = [r \in Req |-> NoSettings]
    /\ tierConfig = [r \in Req |-> NoConfig]
    /\ cfgVia = [r \in Req |-> ""]
    /\ resolved = [r \in Req |-> NoTier]
    /\ payload = [r \in Req |-> NoPayload]
    /\ retryCount = [r \in Req |-> 0]
    /\ header = [r \in Req |-> NoHeader]
    /\ delay = [r \in Req |-> Num(0)]
    /\ failedAt = [r \in Req |-> 0]
    /\ wakeAt = [r \in Req |-> 0]
    /\ issuedAt = [r \in Req |-> 0]
    /\ attempts = [r \in Req |-> 0]
    /\ lastError = [r \in Req |-> NoError]
    /\ outcomes = [r \in Req |-> << >>]
    /\ response = [r \in Req |-> NoResponse]
    /\ themesReads = [r \in Req |-> 0]
    /\ assetReads = [r \in Req |-> 0]
    /\ checkedAt = [r \in Req |-> -1]
    /\ storedAt = [r \in Req |-> -1]
    /\ readAt = [r \in Req |-> -1]
    /\ cachedFrom = NoRead
    /\ calls = [r \in Req |-> << >>]
    /\ inFlight = [r \in Req |-> {}]
    /\ drafts = << >>


(***************************************************************************)
(* The request handler and getCustomerTier.                                *)
(***************************************************************************)
\* line 189-190: totalSpent and customerTags of the fetched profile; a missing
\* total_spent is 0, missing tags are the empty string, whose split is [""]
ParseProfile(p) ==
    [totalSpent   |-> IF "total_spent" \in DOMAIN p THEN p.total_spent ELSE 0,
     customerTags |-> CustomerTags(IF "tags" \in DOMAIN p THEN p.tags ELSE <<"">>)]

\* the remote call a suspended request is awaiting the answer of
Awaited(r) ==
    CASE pc[r] = "customer_fetch"               -> {"customer"}
      [] pc[r] = "themes_fetch"                 -> {"themes"}
      [] pc[r] \in {"asset_fetch", "asset_json"} -> {"asset"}
      [] pc[r] = "post"                         -> {"post"}
      [] OTHER                                  -> {}

\* a remote call: the store it goes to and the JSON body it carries
Call(to, data) == [to |-> to, body |-> data]

\* the awaited call, if any, has been answered and the request issues call c
Issue(r, c) ==
    /\ calls' = [calls EXCEPT ![r] = Append(@, c)]
    /\ inFlight' = [inFlight EXCEPT ![r] = (@ \ Awaited(r)) \cup {c.to}]

\* the awaited call has been answered and no call is issued
Answered(r) ==
    /\ inFlight' = [inFlight EXCEPT ![r] = @ \ Awaited(r)]
    /\ UNCHANGED calls

\* lines 287-329: getCustomerTier has returned tier; the payload is built and
\* the first POST is issued
BuildAndPost(r, tier) ==
    /\ resolved' = [resolved EXCEPT ![r] = tier]
    /\ Issue(r, Call("post", DraftOrderData(body[r], tier)))
    /\ payload' = [payload EXCEPT ![r] = DraftOrderData(body[r], tier)]
    /\ pc' = [pc EXCEPT ![r] = "post"]
    /\ attempts' = [attempts EXCEPT ![r] = @ + 1]
    /\ issuedAt' = [issuedAt EXCEPT ![r] = now]
    /\ UNCHANGED <<retryCount, header, delay, failedAt, wakeAt, lastError, outcomes,
                   response>>

\* lines 195-223: getTierConfig has returned cfg (by way of via)
ConfigReturned(r, cust, cfg, via) ==
    /\ customer' = [customer EXCEPT ![r] = cust]
    /\ tierConfig' = [tierConfig EXCEPT ![r] = cfg]
    /\ cfgVia' = [cfgVia EXCEPT ![r] = via]
    /\ BuildAndPost(r, ResolveTier(cust, cfg))

\* Mutant of Arrive: a request without customer id is resolved against the
\* tier config instead of returning at once.
ArriveLooksUpConfig(r) ==
    /\ pc[r] = "idle"
    /\ LET v == Validate(body[r].items) IN
       IF v # "ok"
       THEN /\ response' = [response EXCEPT ![r] =
                               [status |-> 400, error |-> v, message |-> NoError]
                               @@ NoDraft]
            /\ pc' = [pc EXCEPT ![r] = "done"]
            /\ UNCHANGED <<tierVars, retryVars, callVars, readVars>>
       ELSE IF body[r].customer_id = ""
       THEN /\ pc' = [pc EXCEPT ![r] = "themes_fetch"]
            /\ Issue(r, Call("themes", NoPayload))
            /\ themesReads' = [themesReads EXCEPT ![r] = @ + 1]
            /\ checkedAt' = [checkedAt EXCEPT ![r] = now]
            /\ UNCHANGED <<tierVars, retryVars, response, assetReads, storedAt, readAt>>
       ELSE /\ pc' = [pc EXCEPT ![r] = "customer_fetch"]
            /\ Issue(r, Call("customer", NoPayload))
            /\ UNCHANGED <<tierVars, retryVars, response, readVars>>
    /\ UNCHANGED <<now, cacheVars, storeVars, body, drafts>>

\* Mutant of Arrive: getCustomerTier is called without await, so the payload
\* is built and POSTed while the profile read is still outstanding.
ArriveWithoutAwait(r) ==
    /\ pc[r] = "idle"
    /\ LET v == Validate(body[r].items) IN
       IF v # "ok"
       THEN /\ response' = [response EXCEPT ![r] =
                               [status |-> 400, error |-> v, message |-> NoError]
                               @@ NoDraft]
            /\ pc' = [pc EXCEPT ![r] = "done"]
            /\ UNCHANGED <<tierVars, retryVars, callVars>>
       ELSE /\ resolved' = [resolved EXCEPT ![r] = NoTier]
            /\ payload' = [payload EXCEPT ![r] = DraftOrderData(body[r], NoTier)]
            /\ pc' = [pc EXCEPT ![r] = "post"]
            /\ attempts' = [attempts EXCEPT ![r] = @ + 1]
            /\ issuedAt' = [issuedAt EXCEPT ![r] = now]
            /\ calls' = [calls EXCEPT ![r] =
                            IF body[r].customer_id = ""
                            THEN <<Call("post", DraftOrderData(body[r], NoTier))>>
                            ELSE <<Call("customer", NoPayload),
                                   Call("post", DraftOrderData(body[r], NoTier))>>]
            /\ inFlight' = [inFlight EXCEPT ![r] =
                               IF body[r].customer_id = "" THEN {"post"}
                               ELSE {"customer", "post"}]
            /\ UNCHANGED <<customer, snapshot, tierConfig, cfgVia, retryCount, header,
                           delay, failedAt, wakeAt, lastError, outcomes, response>>
    /\ UNCHANGED <<now, cacheVars, storeVars, body, readVars, drafts>>

\* lines 260-287: the body is validated; getCustomerTier is entered
Arrive(r) ==
    /\ pc[r] = "idle"
    /\ LET v == Validate(body[r].items) IN
       IF v # "ok"
       THEN /\ response' = [response EXCEPT ![r] =
                               [status |-> 400, error |-> v, message |-> NoError]
                               @@ NoDraft]
            /\ pc' = [pc EXCEPT ![r] = "done"]
            /\ UNCHANGED <<tierVars, retryVars, callVars>>
       ELSE IF body[r].customer_id = ""
       THEN /\ BuildAndPost(r, NoTier)
            /\ UNCHANGED <<customer, snapshot, tierConfig, cfgVia>>
       ELSE /\ pc' = [pc EXCEPT ![r] = "customer_fetch"]
            /\ Issue(r, Call("customer", NoPayload))
            /\ UNCHANGED <<tierVars, retryVars, response>>
    /\ UNCHANGED <<now, cacheVars, storeVars, body, readVars, drafts>>

\* lines 184-195 and 26-43: the profile arrived; getTierConfig answers from the
\* cache or issues the themes read
CustomerOk(r) ==
    /\ pc[r] = "customer_fetch"
    /\ LET cust == ParseProfile(profiles[body[r].customer_id]) IN
       IF CacheValid(cachedTierConfig, cacheExpiry, now)
       THEN /\ ConfigReturned(r, cust, cachedTierConfig, "cache")
            /\ UNCHANGED <<snapshot, themesReads>>
       ELSE /\ customer' = [customer EXCEPT ![r] = cust]
            /\ pc' = [pc EXCEPT ![r] = "themes_fetch"]
            /\ themesReads' = [themesReads EXCEPT ![r] = @ + 1]
            /\ Issue(r, Call("themes", NoPayload))
            /\ UNCHANGED <<snapshot, tierConfig, cfgVia, resolved, payload,
                           retryVars, response>>
    /\ checkedAt' = [checkedAt EXCEPT ![r] = now]
    /\ UNCHANGED <<now, cacheVars, storeVars, body, assetReads, storedAt, readAt, drafts>>

\* Mutant of CustomerFails: the failure is raised to the handler, which
\* answers 500 without creating the order.
CustomerFailsRaises(r) ==
    /\ pc[r] = "customer_fetch"
    /\ pc' = [pc EXCEPT ![r] = "done"]
    /\ Answered(r)
    /\ response' = [response EXCEPT ![r] =
                       [status |-> 500, error |-> "Internal server error",
                        message |-> NetworkError("fetch failed")] @@ NoDraft]
    /\ UNCHANGED <<now, cacheVars, storeVars, body, tierVars, retryVars, readVars, drafts>>

\* lines 179-182 and 225-228: the profile read answered non-ok, or threw
CustomerFails(r) ==
    /\ pc[r] = "customer_fetch"
    /\ BuildAndPost(r, NoTier)
    /\ UNCHANGED <<now, cacheVars, storeVars, body, customer, snapshot, tierConfig,
                   cfgVia, readVars, drafts>>

(***************************************************************************)
(* getTierConfig: the two reads (lines 32-134).                            *)
(***************************************************************************)
\* lines 50-68: the themes read answered with a main theme; the asset is read
ThemesOk(r) ==
    /\ pc[r] = "themes_fetch"
    /\ pc' = [pc EXCEPT ![r] = "asset_fetch"]
    /\ assetReads' = [assetReads EXCEPT ![r] = @ + 1]
    /\ Issue(r, Call("asset", NoPayload))
    /\ UNCHANGED <<now, cacheVars, storeVars, body, tierVars, retryVars, response,
                   themesReads, checkedAt, storedAt, readAt, drafts>>

\* Mutant of ReturnDefault: the default is cached like a loaded config.
ReturnDefaultCached(r, why) ==
    /\ ConfigReturned(r, customer[r], getDefaultTierConfig, why)
    /\ cachedTierConfig' = getDefaultTierConfig
    /\ cacheExpiry' = now + CACHE_TTL
    /\ UNCHANGED <<now, storeVars, body, snapshot, readVars, cachedFrom, drafts>>

\* a failed step: getDefaultTierConfig() is returned and the cache is left as
\* it is (lines 45-48, 53-56, 70-73, 130-133)
ReturnDefault(r, why) ==
    /\ ConfigReturned(r, customer[r], getDefaultTierConfig, why)
    /\ UNCHANGED <<now, cacheVars, storeVars, body, snapshot, readVars, drafts>>

\* lines 45-56, 130-133: themes read non-ok, no main theme, or thrown
ThemesFail(r, why) ==
    /\ pc[r] = "themes_fetch"
    /\ ReturnDefault(r, why)

\* line 59-75: the asset read answered ok with the settings as stored now
AssetOk(r) ==
    /\ pc[r] = "asset_fetch"
    /\ snapshot' = [snapshot EXCEPT ![r] = themeSettings]
    /\ readAt' = [readAt EXCEPT ![r] = now]
    /\ pc' = [pc EXCEPT ![r] = "asset_json"]
    /\ UNCHANGED <<now, cacheVars, storeVars, body, customer, tierConfig, cfgVia,
                   resolved, payload, retryVars, response, themesReads, assetReads,
                   checkedAt, storedAt, callVars, drafts>>

\* lines 70-73, 130-133: asset read non-ok, or thrown
AssetFail(r, why) ==
    /\ pc[r] = "asset_fetch"
    /\ ReturnDefault(r, why)

\* lines 75-77, 130-133: the asset body does not parse
AssetUnparsable(r) ==
    /\ pc[r] = "asset_json"
    /\ ReturnDefault(r, "asset_parse")

\* Mutant of StoreInCache: the tiers of a config already cached are kept and
\* only the flag is refreshed.
StoreInCacheMerged(r, cfg) ==
    /\ cachedTierConfig' = IF cachedTierConfig = NoConfig THEN cfg
                           ELSE [cachedTierConfig EXCEPT
                                    !.prioritize_tags = cfg.prioritize_tags]
    /\ cacheExpiry' = now + CACHE_TTL
    /\ cachedFrom' = [by |-> r, readAt |-> readAt[r]]

\* lines 124-126: cachedTierConfig and cacheExpiry after a successful load
StoreInCache(r, cfg) ==
    /\ cachedTierConfig' = cfg
    /\ cacheExpiry' = now + CACHE_TTL
    /\ cachedFrom' = [by |-> r, readAt |-> readAt[r]]

\* lines 75-128: the settings are parsed, tierConfig is built, cached and
\* returned
AssetParsed(r) ==
    /\ pc[r] = "asset_json"
    /\ LET cfg == BuildTierConfig(snapshot[r]) IN
       /\ StoreInCache(r, cfg)
       /\ ConfigReturned(r, customer[r], cfg, "fetch")
    /\ storedAt' = [storedAt EXCEPT ![r] = now]
    /\ UNCHANGED <<now, storeVars, body, snapshot, themesReads, assetReads, checkedAt,
                   readAt, drafts>>

(***************************************************************************)
(* createDraftOrderWithRetry (lines 356-422).                              *)
(***************************************************************************)
\* the draft order the shop creates from the POST in flight (lines 358-365);
\* its invoice URL and total price are the shop's, named after the draft
DraftOrder(r) ==
    LET id == Len(drafts) + 1
    IN  [id |-> id, invoice_url |-> <<"invoice", id>>, total_price |-> <<"total", id>>,
         by |-> r, data |-> calls[r][Len(calls[r])].body]

\* the order store after the attempt in flight: the shop carried the POST out
\* or it did not
Remote(r, processed) ==
    drafts' = IF processed THEN Append(drafts, DraftOrder(r)) ELSE drafts

\* await sleep(delay) after a failed attempt
Sleep(r, d, err, h) ==
    /\ pc' = [pc EXCEPT ![r] = "sleep"]
    /\ Answered(r)
    /\ delay' = [delay EXCEPT ![r] = d]
    /\ header' = [header EXCEPT ![r] = h]
    /\ failedAt' = [failedAt EXCEPT ![r] = now]
    /\ wakeAt' = [wakeAt EXCEPT ![r] = now + sleep(d)]
    /\ lastError' = [lastError EXCEPT ![r] = err]
    /\ outcomes' = [outcomes EXCEPT ![r] = Append(@, err.status)]
    /\ UNCHANGED <<retryCount, issuedAt, attempts, response>>

\* the error leaves createDraftOrderWithRetry: the handler answers 500
\* (lines 347-350)
Fail(r, err) ==
    /\ pc' = [pc EXCEPT ![r] = "done"]
    /\ Answered(r)
    /\ lastError' = [lastError EXCEPT ![r] = err]
    /\ outcomes' = [outcomes EXCEPT ![r] = Append(@, err.status)]
    /\ response' = [response EXCEPT ![r] =
                       [status |-> 500, error |-> "Internal server error",
                        message |-> err] @@ NoDraft]
    /\ UNCHANGED <<retryCount, header, delay, failedAt, wakeAt, issuedAt, attempts>>

\* the catch block (lines 411-421) on an error thrown inside the try
Catch(r, err) ==
    IF CatchRetries(retryCount[r], err)
    THEN Sleep(r, Num(Backoff(retryCount[r])), err, NoHeader)
    ELSE Fail(r, err)

\* lines 370-383: the attempt was answered 429 (the shop refused it)
Post429(r, h) ==
    /\ pc[r] = "post"
    /\ IF RateLimitRetries(retryCount[r])
       THEN Sleep(r, Delay429(h, retryCount[r]), RateLimitError, h)
       ELSE Catch(r, RateLimitError)
    /\ Remote(r, FALSE)
    /\ UNCHANGED <<now, cacheVars, storeVars, body, tierVars, readVars>>

\* lines 386-404: the attempt was answered with another non-ok status.  A 4xx
\* is the shop refusing the request; a 5xx may come after the shop carried
\* the request out (a gateway answering for a shop that was slow to answer).
PostNotOk(r, status, text, processed) ==
    /\ pc[r] = "post"
    /\ processed => status >= 500
    /\ IF ServerErrorRetries(status, retryCount[r])
       THEN Sleep(r, Num(Backoff(retryCount[r])), ApiError(status, text), NoHeader)
       ELSE Catch(r, ApiError(status, text))
    /\ Remote(r, processed)
    /\ UNCHANGED <<now, cacheVars, storeVars, body, tierVars, readVars>>

\* lines 358, 411: fetch rejected: the request never reached the shop, or the
\* connection broke after the shop carried it out
PostThrows(r, msg, processed) ==
    /\ pc[r] = "post"
    /\ Catch(r, NetworkError(msg))
    /\ Remote(r, processed)
    /\ UNCHANGED <<now, cacheVars, storeVars, body, tierVars, readVars>>

\* the error response.json() or data.draft_order.id throws on a 2xx answer
\* whose body is not the created draft order (lines 406-407)
BodyError == [kind |-> "body", status |-> 200, text |-> ""]

\* lines 406-407, 411-420: the shop created the draft order and answered 2xx,
\* but the body cannot be read as a draft order; the error is thrown inside
\* the try
PostOkUnreadable(r) ==
    /\ pc[r] = "post"
    /\ Catch(r, BodyError)
    /\ Remote(r, TRUE)
    /\ UNCHANGED <<now, cacheVars, storeVars, body, tierVars, readVars>>

\* lines 406-409 and 340-345: the draft order was created; the handler
\* answers 200
PostOk(r) ==
    /\ pc[r] = "post"
    /\ pc' = [pc EXCEPT ![r] = "done"]
    /\ Answered(r)
    /\ Remote(r, TRUE)
    /\ LET draftOrder == DraftOrder(r) IN
       response' = [response EXCEPT ![r] =
                       [status |-> 200, error |-> "", message |-> NoError,
                        draft_order_id |-> draftOrder.id,
                        invoice_url |-> draftOrder.invoice_url,
                        total_price |-> draftOrder.total_price]]
    /\ outcomes' = [outcomes EXCEPT ![r] = Append(@, 200)]
    /\ UNCHANGED <<now, cacheVars, storeVars, body, tierVars, retryCount, header, delay,
                   failedAt, wakeAt, issuedAt, attempts, lastError, readVars>>

\* the timer has fired
TimerFired(r) == now >= wakeAt[r]

\* Mutant of Wake: the retry resolves the tier again from the config cached
\* by now and sends the payload rebuilt from it.
WakeRebuilds(r) ==
    /\ pc[r] = "sleep"
    /\ TimerFired(r)
    /\ pc' = [pc EXCEPT ![r] = "post"]
    /\ retryCount' = [retryCount EXCEPT ![r] = @ + 1]
    /\ attempts' = [attempts EXCEPT ![r] = @ + 1]
    /\ issuedAt' = [issuedAt EXCEPT ![r] = now]
    /\ LET tier == IF cfgVia[r] = "" \/ cachedTierConfig = NoConfig THEN resolved[r]
                   ELSE ResolveTier(customer[r], cachedTierConfig)
       IN  /\ resolved' = [resolved EXCEPT ![r] = tier]
           /\ payload' = [payload EXCEPT ![r] = DraftOrderData(body[r], tier)]
           /\ Issue(r, Call("post", DraftOrderData(body[r], tier)))
    /\ UNCHANGED <<now, cacheVars, storeVars, body, customer, snapshot, tierConfig, cfgVia,
                   header, delay, failedAt, wakeAt, lastError, outcomes, response,
                   readVars, drafts>>

\* lines 378, 400, 417: the sleep is over; the next attempt is issued with
\* retryCount + 1
Wake(r) ==
    /\ pc[r] = "sleep"
    /\ TimerFired(r)
    /\ pc' = [pc EXCEPT ![r] = "post"]
    /\ retryCount' = [retryCount EXCEPT ![r] = @ + 1]
    /\ attempts' = [attempts EXCEPT ![r] = @ + 1]
    /\ issuedAt' = [issuedAt EXCEPT ![r] = now]
    /\ Issue(r, Call("post", payload[r]))
    /\ UNCHANGED <<now, cacheVars, storeVars, body, tierVars, header, delay, failedAt,
                   wakeAt, lastError, outcomes, response, readVars, drafts>>

(***************************************************************************)
(* The environment: the clock and the shop admin.                          *)
(***************************************************************************)
\* the instants the clock is observed at: a timer's deadline, the cache
\* expiry, the millisecond before it, and the next multiple of half a TTL
HalfTTL == CACHE_TTL \div 2
Deadlines ==
    {wakeAt[r] : r \in {q \in Req : pc[q] = "sleep"}}
    \cup (IF cachedTierConfig # NoConfig THEN {cacheExpiry - 1, cacheExpiry} ELSE {})
    \cup {(now \div HalfTTL + 1) * HalfTTL}

Tick ==
    /\ \E t \in Deadlines : t > now /\ t <= MaxTime /\ now' = t
    /\ UNCHANGED <<cacheVars, storeVars, pc, body, tierVars, retryVars, response,
                   readVars, callVars, drafts>>


(***************************************************************************)
(* Input domains.                                                          *)
(***************************************************************************)
Thresholds == (0 - NegDepth)..MaxThreshold
SpentVals == ((0 - NegDepth)..MaxSpent) \cup {150, 3000}

\* Settings with the thresholds th of slots 1-3 and one of two layouts of the
\* other fields.  Slot 5 has no threshold (it defaults to 0, the threshold of
\* slot 6); layout 2 misses a name, a discount and the name of slot 6, carries
\* a tag with blanks, discounts that do not follow the thresholds, and a
\* threshold in slot 6.
MkSettings(p, th, layout) ==
    IF layout = 1
    THEN [prioritize |-> p,
          slots |-> << [name |-> "T1", tag |-> "VIP", discount |-> 10, threshold |-> th[1]],
                       [name |-> "T2", tag |-> "gold", discount |-> 8, threshold |-> th[2]],
                       [name |-> "T3", tag |-> "T3", discount |-> 6, threshold |-> th[3]],
                       [name |-> "T4", tag |-> "T4", discount |-> 4, threshold |-> 1],
                       [name |-> "T5", tag |-> "T5", discount |-> 2],
                       [name |-> "MEMBER", tag |-> "M", discount |-> 0] >>]
    ELSE [prioritize |-> p,
          slots |-> << [name |-> "T1", tag |-> " gold ", threshold |-> th[1]],
                       [tag |-> "Gold", discount |-> 3, threshold |-> th[2]],
                       [name |-> "T3", tag |-> "", discount |-> 9, threshold |-> th[3]],
                       [name |-> "T4", tag |-> "VIP", discount |-> 4, threshold |-> 1],
                       [name |-> "T5", tag |-> "T5", discount |-> 2],
                       [tag |-> "M", discount |-> 1, threshold |-> 5] >>]

SettingsDomain ==
    {MkSettings(p, th, l) : p \in BOOLEAN, th \in [1..3 -> Thresholds], l \in {1, 2}}

\* the settings the admin saves in the runs that do not explore them all
SettingsPool ==
    {MkSettings(TRUE, <<2, 1, 1>>, 1), MkSettings(FALSE, <<0, 2, 2>>, 2)}

TagLists == {<<"">>, <<"gold">>, <<" Gold", "vip">>, <<"member">>}

ProfileDomain ==
    {[total_spent |-> sp, tags |-> t] : sp \in SpentVals, t \in TagLists}
    \cup {[tags |-> <<"gold">>], [total_spent |-> 1]}

ProfilePool ==
    {[total_spent |-> 0, tags |-> <<"">>], [total_spent |-> 2, tags |-> <<"gold">>]}

CustomerIds == {"c1"}
ProfileStores(dom) == {[c \in CustomerIds |-> p] : p \in dom}

\* line items of a request: well-formed ones with every shape of
\* discount_percent, and one ill-formed item per validation rule
GoodItems ==
    {[variant_id |-> "v1", quantity |-> 2, price |-> 10]}
    \cup {[variant_id |-> "v1", quantity |-> 2, price |-> 10, discount_percent |-> d] :
             d \in {0, 50, 100}}
    \cup {[variant_id |-> "v2", quantity |-> 1, price |-> 0, discount_percent |-> 50]}
BadItems ==
    {[variant_id |-> "", quantity |-> 1, price |-> 10],
     [variant_id |-> "v1", quantity |-> 0, price |-> 10],
     [variant_id |-> "v1", quantity |-> 1],
     [variant_id |-> "v1", quantity |-> 1, price |-> -1],
     [variant_id |-> "v1", quantity |-> 1, price |-> 10, discount_percent |-> -1],
     [variant_id |-> "v1", quantity |-> 1, price |-> 10, discount_percent |-> 101]}
ItemDomain == GoodItems \cup BadItems

ItemLists ==
    {<< >>} \cup {<<a>> : a \in ItemDomain}
    \cup {<<a, b>> : a \in GoodItems, b \in ItemDomain}

Body(c, e, items) == [customer_id |-> c, customer_email |-> e, items |-> items]

BodyDomain ==
    {Body(c, e, items) : c \in CustomerIds \cup {""}, e \in {"", "a@x"}, items \in ItemLists}

OneItem == <<[variant_id |-> "v1", quantity |-> 2, price |-> 10, discount_percent |-> 50]>>

\* item with its client-supplied discount_percent removed
StripItem(item) == [f \in (DOMAIN item) \ {"discount_percent"} |-> item[f]]
StripBody(b) ==
    [b EXCEPT !.items = [i \in 1..Len(b.items) |-> StripItem(b.items[i])]]

\* the admin saves other settings in the theme editor
AdminEdit ==
    /\ edits < MaxEdits
    /\ \E st \in SettingsPool \ {themeSettings} : themeSettings' = st
    /\ edits' = edits + 1
    /\ UNCHANGED <<now, cacheVars, profiles, pc, body, tierVars, retryVars, response,
                   readVars, callVars, drafts>>

(***************************************************************************)
(* Specifications.                                                         *)
(***************************************************************************)
NotOkStatuses == {422, 503}

Resolution(r) ==
    \/ Arrive(r)
    \/ CustomerOk(r)
    \/ CustomerFails(r)
    \/ ThemesOk(r)
    \/ \E why \in {"themes_status", "no_main_theme", "themes_throw"} : ThemesFail(r, why)
    \/ AssetOk(r)
    \/ \E why \in {"asset_status", "asset_throw"} : AssetFail(r, why)
    \/ AssetUnparsable(r)
    \/ AssetParsed(r)

Posting(r) ==
    \/ \E h \in RetryAfterHeaders : Post429(r, h)
    \/ \E st \in NotOkStatuses, text \in BodyTexts, processed \in BOOLEAN :
          PostNotOk(r, st, text, processed)
    \/ \E msg \in NetworkMessages, processed \in BOOLEAN : PostThrows(r, msg, processed)
    \/ PostOkUnreadable(r)
    \/ PostOk(r)
    \/ Wake(r)

\* the answers without a Retry-After header and without a body, to POSTs
\* that failed before the shop carried them out
PostingPlain(r) ==
    \/ Post429(r, NoHeader)
    \/ PostNotOk(r, 503, "", FALSE)
    \/ PostThrows(r, "fetch failed", FALSE)
    \/ PostOk(r)
    \/ Wake(r)

\* The whole program: a request of a known customer with one item, next to
\* a request without items, which is refused.
Next ==
    \/ \E r \in Req : Resolution(r)
    \/ \E r \in Req : PostingPlain(r)
    \/ Tick
    \/ AdminEdit

Init ==
    InitWith({[r \in Req |-> IF r = "r1" THEN Body("c1", "", OneItem)
                                         ELSE Body("", "a@x", << >>)]},
             SettingsPool, ProfileStores({[total_spent |-> 2, tags |-> <<"gold">>]}))

Spec == Init /\ [][Next]_vars

\* Tier resolution over every settings blob and profile of the domains; one
\* request at a time, the order creation succeeding.
InitResolve ==
    InitWith({[r \in Req |-> Body("c1", "", OneItem)]}, SettingsDomain,
             ProfileStores(ProfileDomain))

NextResolve ==
    \/ Resolution("r1")
    \/ PostOk("r1")

SpecResolve == InitResolve /\ [][NextResolve]_vars


(***************************************************************************)
(* Claims about tier resolution.                                           *)
(***************************************************************************)
\* requests whose getCustomerTier went through the profile and the config
Resolved == {r \in Req : cfgVia[r] # ""}

Range(seq) == {seq[i] : i \in 1..Len(seq)}

\* the tiers the customer's spend qualifies for
Qualifying(tiers, totalSpent) ==
    {i \in 1..Len(tiers) : totalSpent >= tiers[i].threshold}

\* the first tier, in stored order, among the qualifying tiers of highest
\* threshold; none when no tier qualifies
HighestThresholdTier(tiers, totalSpent) ==
    LET q == Qualifying(tiers, totalSpent)
        top == {i \in q : \A j \in q : tiers[i].threshold >= tiers[j].threshold}
    IN  IF q = {} THEN NoTier
        ELSE LET i == CHOOSE i \in top : \A j \in top : i <= j
             IN  [tier |-> tiers[i].name, discount |-> tiers[i].discount]

\* the tiers whose tag, compared without regard to case, is one of the
\* customer's tags
TaggedTiers(tiers, customerTags) ==
    {i \in 1..Len(tiers) :
        \E t \in Range(customerTags) : toUpperCase(tiers[i].tag) = toUpperCase(t)}

C2_AboveInitialMax ==
    \A r \in Resolved :
        /\ TagOverride(tierConfig[r], customer[r].customerTags) = 0
        /\ \A i \in Qualifying(tierConfig[r].tiers, customer[r].totalSpent) :
              tierConfig[r].tiers[i].threshold > -1
        => resolved[r] = HighestThresholdTier(tierConfig[r].tiers, customer[r].totalSpent)

\* C3: with prioritize_tags on and a tier tag among the customer's tags, the
\* first such tier in stored order is returned whatever the spend; otherwise
\* the result is the spend-based one.
C3_TagOverrideFirstMatch ==
    \A r \in Resolved :
        LET tiers == tierConfig[r].tiers
            m == TaggedTiers(tiers, customer[r].customerTags)
        IN  IF tierConfig[r].prioritize_tags /\ m # {}
            THEN \E i \in m :
                    /\ \A j \in m : i <= j
                    /\ resolved[r] = [tier |-> tiers[i].name, discount |-> tiers[i].discount]
            ELSE resolved[r] = TierFromSpent(tiers, customer[r].totalSpent)

\* C3 witness: a tag override returned a tier although the spend-based tier
\* carries a higher discount and a second tier also matches a tag.
C3_Witness ==
    \E r \in Resolved :
        LET tiers == tierConfig[r].tiers
            m == TaggedTiers(tiers, customer[r].customerTags)
        IN  /\ tierConfig[r].prioritize_tags
            /\ Cardinality(m) >= 2
            /\ TierFromSpent(tiers, customer[r].totalSpent).discount > resolved[r].discount
            /\ resolved[r].discount > 0


\* Requests that differ only in the discount_percent their items carry, for
\* one customer whose profile and settings come from the pools; the order
\* creation succeeds.
TwinBodies ==
    UNION { { [r \in Req |-> IF r = "r1" THEN b1 ELSE b2] :
                b2 \in {b \in BodyDomain : StripBody(b) = StripBody(b1)} } :
            b1 \in BodyDomain }

InitOrder ==
    InitWith(TwinBodies, {MkSettings(TRUE, <<2, 1, 1>>, 1)}, ProfileStores(ProfilePool))

NextOrder ==
    \/ \E r \in Req : Resolution(r)
    \/ \E r \in Req : PostOk(r)

SpecOrder == InitOrder /\ [][NextOrder]_vars

(***************************************************************************)
(* Claims about the payload.                                               *)
(***************************************************************************)
\* requests whose draftOrderData has been assembled
Built == {r \in Req : pc[r] \in {"post", "sleep", "done"} /\ attempts[r] > 0}

\* the number a string of decimal digits reads as
RECURSIVE parseDigits(_)
parseDigits(ds) ==
    IF Len(ds) = 0 THEN 0
    ELSE 10 * parseDigits(SubSeq(ds, 1, Len(ds) - 1)) + ds[Len(ds)]

LineItems(r) == Range(payload[r].line_items)

\* C1: every applied_discount of an outgoing payload carries the percent
\* getCustomerTier returned for the request, and two requests that differ only
\* in their items' discount_percent, resolved alike, send identical payloads.
C1_DiscountFromServerOnly ==
    /\ \A r \in Built : \A li \in LineItems(r) :
          "applied_discount" \in DOMAIN li
          => parseDigits(li.applied_discount.value) = resolved[r].discount
    /\ \A r \in Built :
          cfgVia[r] # "" =>
             resolved[r] = ResolveTier(ParseProfile(profiles[body[r].customer_id]),
                                       tierConfig[r])
    /\ \A r1 \in Built, r2 \in Built :
          StripBody(body[r1]) = StripBody(body[r2]) /\ resolved[r1] = resolved[r2]
          => payload[r1] = payload[r2]

\* C1 witness: two requests whose items carry different discount_percent
\* values, neither equal to the server's percent, have both sent a discounted
\* payload.
C1_Witness ==
    \E r1 \in Built, r2 \in Built :
        /\ body[r1] # body[r2]
        /\ resolved[r1] = resolved[r2]
        /\ resolved[r1].discount > 0
        /\ \E i \in 1..Len(body[r1].items) :
              /\ "discount_percent" \in DOMAIN body[r1].items[i]
              /\ "discount_percent" \in DOMAIN body[r2].items[i]
              /\ body[r1].items[i].discount_percent # body[r2].items[i].discount_percent
              /\ body[r1].items[i].discount_percent # resolved[r1].discount
        /\ \A li \in LineItems(r1) : "applied_discount" \in DOMAIN li

\* C4: a payload resolved to 0 percent has no applied_discount on any line
\* item; a payload resolved above 0 has one on every line item, with that
\* percent.
C4_OmissionLaw ==
    \A r \in Built : \A li \in LineItems(r) :
        /\ resolved[r].discount = 0 => "applied_discount" \notin DOMAIN li
        /\ resolved[r].discount > 0 =>
              /\ "applied_discount" \in DOMAIN li
              /\ li.applied_discount.value = toString(resolved[r].discount)

\* C4 witness: one request resolved to a zero-discount tier and sent bare
\* line items while another sent discounted ones.
C4_Witness ==
    \E r1 \in Built, r2 \in Built :
        /\ resolved[r1].discount = 0 /\ resolved[r1].tier # NullTier
        /\ LineItems(r1) # {}
        /\ resolved[r2].discount > 0
        /\ \A li \in LineItems(r2) : "applied_discount" \in DOMAIN li

CustomerKeys(r) == (DOMAIN payload[r]) \cap {"customer", "email"}

\* C5: every assembled payload carries exactly one customer reference, the id
\* when customer_id is given, otherwise the email.
C5_ExactlyOneReference ==
    \A r \in Built :
        /\ Cardinality(CustomerKeys(r)) = 1
        /\ body[r].customer_id # "" => CustomerKeys(r) = {"customer"}
        /\ body[r].customer_id = "" => CustomerKeys(r) = {"email"}

\* C5 amended: at most one reference, never both: the id when customer_id is
\* given (also when an email is given), otherwise the email when it is given,
\* otherwise none.
C5_AtMostOneReference ==
    \A r \in Built :
        /\ Cardinality(CustomerKeys(r)) <= 1
        /\ body[r].customer_id # "" =>
              /\ CustomerKeys(r) = {"customer"}
              /\ payload[r].customer = [id |-> body[r].customer_id]
        /\ body[r].customer_id = "" /\ body[r].customer_email # "" =>
              /\ CustomerKeys(r) = {"email"}
              /\ payload[r].email = body[r].customer_email
        /\ body[r].customer_id = "" /\ body[r].customer_email = "" =>
              CustomerKeys(r) = {}

\* C5 witness: a payload built for a request giving both an id and an email
\* carries the id alone.
C5_Witness ==
    \E r \in Built :
        /\ body[r].customer_id # "" /\ body[r].customer_email # ""
        /\ CustomerKeys(r) = {"customer"}


\* One request without a customer id (getCustomerTier returns at once) whose
\* order creation meets every kind of answer.
InitRetry ==
    InitWith({[r \in Req |-> Body("", "a@x", OneItem)]}, {MkSettings(TRUE, <<2, 1, 1>>, 1)},
             ProfileStores({[total_spent |-> 0, tags |-> <<"">>]}))

NextRetry ==
    \/ Arrive("r1")
    \/ Posting("r1")
    \/ Tick

SpecRetry == InitRetry /\ [][NextRetry]_vars

(***************************************************************************)
(* Claims about createDraftOrderWithRetry.                                 *)
(***************************************************************************)
Only429(r) == \A i \in 1..Len(outcomes[r]) : outcomes[r][i] = 429

\* C6: while the endpoint keeps answering 429 the call retries up to
\* MAX_RETRIES times after the first attempt, then fails with the rate-limit
\* error, and no POST is issued after that failure.
C6_RateLimitExhaustion ==
    /\ [](\A r \in Req :
            Only429(r) /\ outcomes[r] # << >> =>
               /\ attempts[r] <= MAX_RETRIES + 1
               /\ Len(outcomes[r]) <= MAX_RETRIES => pc[r] \in {"sleep", "post"}
               /\ Len(outcomes[r]) = MAX_RETRIES + 1 =>
                     /\ pc[r] = "done"
                     /\ attempts[r] = MAX_RETRIES + 1
                     /\ response[r].status = 500
                     /\ response[r].message = RateLimitError)
    /\ [][\A r \in Req : pc[r] = "done" => attempts'[r] = attempts[r] /\ pc'[r] = "done"]_vars

\* C6 witness: four attempts, all answered 429, and the rate-limit failure.
C6_Witness ==
    \E r \in Req :
        /\ outcomes[r] = <<429, 429, 429, 429>>
        /\ pc[r] = "done"
        /\ response[r].message = RateLimitError

\* the attempt whose failure the last sleep followed
FailedAttempt(r) == IF pc[r] = "sleep" THEN retryCount[r] ELSE retryCount[r] - 1

\* the wait C7 states for the last sleep (header is the Retry-After of the
\* 429 it followed, absent after any other failure)
StatedWait(r) ==
    IF header[r].form # "none"
    THEN ServerDelay(header[r])
    ELSE INITIAL_RETRY_DELAY * Pow2(FailedAttempt(r))

Slept(r) == pc[r] = "sleep" \/ retryCount[r] > 0

\* C7: the wait after failed attempt k is INITIAL_RETRY_DELAY * 2^k for a 429
\* without Retry-After, a 5xx and a network failure, and exactly the
\* Retry-After duration for a 429 that carries one; the next attempt is not
\* issued before the wait has elapsed.
C7_WaitBeforeRetry ==
    \A r \in Req :
        Slept(r) =>
           /\ ~delay[r].nan
           /\ delay[r].v = StatedWait(r)
           /\ pc[r] # "sleep" => issuedAt[r] >= failedAt[r] + StatedWait(r)

\* C7, where it does hold: without a Retry-After header, or with one that is a
\* whole number of seconds.
C7_WholeSecondsOrBackoff ==
    \A r \in Req :
        /\ Slept(r)
        /\ \/ header[r].form = "none"
           \/ header[r].form = "seconds" /\ header[r].tenths % 10 = 0
        => /\ ~delay[r].nan
           /\ delay[r].v = StatedWait(r)
           /\ pc[r] # "sleep" => issuedAt[r] >= failedAt[r] + StatedWait(r)

\* C8: a 4xx answer other than 429 fails the call at once, whatever its body:
\* no wait and no further attempt.
C8_ClientErrorNotRetried ==
    \A r \in Req : \A i \in 1..Len(outcomes[r]) :
        outcomes[r][i] >= 400 /\ outcomes[r][i] < 500 /\ outcomes[r][i] # 429
        => /\ i = Len(outcomes[r])
           /\ pc[r] = "done"
           /\ attempts[r] = i

\* C8, where it does hold: the bodies that do not contain "fetch".
C8_ClientErrorWithoutFetch ==
    \A r \in Req :
        /\ lastError[r].kind = "api"
        /\ lastError[r].status < 500
        /\ ~IncludesFetch(lastError[r].text)
        /\ outcomes[r] # << >>
        /\ outcomes[r][Len(outcomes[r])] = lastError[r].status
        => pc[r] = "done" /\ attempts[r] = Len(outcomes[r])


\* Two requests of one customer, arriving at any times, against a
\* configuration store whose reads may fail and whose settings the admin may
\* change; the order creation succeeds.
InitCache ==
    InitWith({[r \in Req |-> Body("c1", "", OneItem)]}, SettingsPool,
             ProfileStores({[total_spent |-> 2, tags |-> <<"gold">>]}))

NextCache ==
    \/ \E r \in Req : Resolution(r)
    \/ \E r \in Req : PostOk(r)
    \/ Tick
    \/ AdminEdit

SpecCache == InitCache /\ [][NextCache]_vars

(***************************************************************************)
(* Claims about the tier-config cache.                                     *)
(***************************************************************************)
\* requests that have reached getTierConfig
Entered == {r \in Req : checkedAt[r] >= 0}
\* requests whose getTierConfig has returned
Returned == {r \in Req : cfgVia[r] # ""}
\* requests that stored a loaded config
Stored == {r \in Req : storedAt[r] >= 0}

FailureKinds ==
    {"themes_status", "no_main_theme", "themes_throw", "asset_status", "asset_throw",
     "asset_parse"}

\* C9: any two resolutions that reach getTierConfig within one TTL window,
\* sequential or concurrent, together issue exactly one themes read and one
\* asset read.  (Stated for the resolutions none of whose reads failed, so
\* that a violation shows two successful fetches inside one window.)
C9_OneFetchPerWindow ==
    \A r1 \in Returned, r2 \in Returned :
        /\ r1 # r2
        /\ cfgVia[r1] \notin FailureKinds /\ cfgVia[r2] \notin FailureKinds
        /\ checkedAt[r1] <= checkedAt[r2]
        /\ checkedAt[r2] - checkedAt[r1] < CACHE_TTL
        => /\ themesReads[r1] + themesReads[r2] = 1
           /\ assetReads[r1] + assetReads[r2] = 1

\* C9 amended: a resolution that reaches getTierConfig after another one
\* stored its loaded config and less than CACHE_TTL after that store issues no
\* read, so the two together issue exactly one themes read and one asset read;
\* a resolution that reaches it when every store so far is CACHE_TTL or more
\* in the past (or none was made) issues a fresh themes read.
C9_CacheLaw ==
    \A r2 \in Entered :
        LET c == checkedAt[r2]
            before == {r1 \in Stored \ {r2} : storedAt[r1] < c}
            notAfter == {r1 \in Stored \ {r2} : storedAt[r1] <= c}
        IN  /\ (\E r1 \in before : c < storedAt[r1] + CACHE_TTL) =>
                  /\ themesReads[r2] = 0 /\ assetReads[r2] = 0
                  /\ cfgVia[r2] = "cache"
                  /\ \E r1 \in before :
                        /\ tierConfig[r2] = tierConfig[r1]
                        /\ themesReads[r1] + themesReads[r2] = 1
                        /\ assetReads[r1] + assetReads[r2] = 1
            /\ (\A r1 \in notAfter : storedAt[r1] + CACHE_TTL <= c) =>
                  /\ themesReads[r2] = 1
                  /\ cfgVia[r2] # "cache"
                  /\ r2 \in Stored => assetReads[r2] = 1

\* C9 witness: a second resolution inside the window of the first one's store
\* was answered from the cache.
C9_Witness ==
    \E r1 \in Stored, r2 \in Entered :
        /\ storedAt[r1] < checkedAt[r2]
        /\ checkedAt[r2] < storedAt[r1] + CACHE_TTL
        /\ cfgVia[r2] = "cache"
        /\ themesReads[r1] + themesReads[r2] = 1

\* C10: a failed step of the configuration fetch returns the hardcoded default
\* and leaves cachedTierConfig and cacheExpiry as they were; the cache only
\* ever holds a config some request loaded, and a later getTierConfig call
\* that finds no valid entry reads the themes again.
C10_DefaultNotCached ==
    /\ [][\A r \in Req :
            cfgVia[r] = "" /\ cfgVia'[r] \in FailureKinds =>
               /\ tierConfig'[r] = getDefaultTierConfig
               /\ cachedTierConfig' = cachedTierConfig
               /\ cacheExpiry' = cacheExpiry]_vars
    /\ [](cachedTierConfig # NoConfig =>
             \E r \in Stored :
                /\ cfgVia[r] = "fetch"
                /\ cachedTierConfig = BuildTierConfig(snapshot[r])
                /\ cacheExpiry = storedAt[r] + CACHE_TTL)
    /\ [](\A r1 \in Returned, r2 \in Entered :
             /\ cfgVia[r1] \in FailureKinds
             /\ Stored \ {r2} = {}
             => themesReads[r2] = 1)

\* C10 witness: after one request was handed the default, the cache is still
\* empty and a later request is reading the themes again.
C10_Witness ==
    \E r1 \in Returned, r2 \in Entered :
        /\ cfgVia[r1] \in FailureKinds
        /\ tierConfig[r1] = getDefaultTierConfig
        /\ checkedAt[r2] > checkedAt[r1]
        /\ cachedTierConfig = NoConfig
        /\ pc[r2] = "themes_fetch"

\* the clock runs on to the deadline of a retry timer
TimerTick ==
    /\ \E r \in Req : pc[r] = "sleep" /\ wakeAt[r] > now /\ now' = wakeAt[r]
    /\ UNCHANGED <<cacheVars, storeVars, pc, body, tierVars, retryVars, response,
                   readVars, callVars, drafts>>

\* A request of a known customer whose order creation is rate-limited and
\* retried, next to a second request, of the same customer or of a guest
\* without customer id, whose order creation succeeds; the admin may change
\* the settings meanwhile.  Time passes in the retry delays only.
InitFlow ==
    InitWith({[r \in Req |-> IF r = "r1" THEN Body("c1", "", OneItem) ELSE b] :
                 b \in {Body("c1", "a@x", OneItem), Body("", "a@x", OneItem)}},
             SettingsPool, ProfileStores({[total_spent |-> 2, tags |-> <<"gold">>]}))

NextFlow ==
    \/ \E r \in Req : Resolution(r)
    \/ Post429("r1", NoHeader)
    \/ Wake("r1")
    \/ \E r \in Req : PostOk(r)
    \/ TimerTick
    \/ AdminEdit

SpecFlow == InitFlow /\ [][NextFlow]_vars

(***************************************************************************)
(* Claims about the requests that resolve no tier.                         *)
(***************************************************************************)
CallsTo(r) == [i \in 1..Len(calls[r]) |-> calls[r][i].to]

\* the POSTs the request has issued, in order
Posts(r) == SelectSeq(calls[r], LAMBDA c : c.to = "post")

\* the profile read was answered and getTierConfig was never entered: the read
\* answered non-ok or threw
ProfileFailed(r) ==
    /\ Len(calls[r]) >= 1 /\ calls[r][1].to = "customer"
    /\ pc[r] # "customer_fetch"
    /\ checkedAt[r] = -1

\* the discount the customer of request r would have been given
DueDiscount(r) ==
    ResolveTier(ParseProfile(profiles[body[r].customer_id]),
                BuildTierConfig(themeSettings)).discount

\* C11: when the profile read fails, getCustomerTier returns {none, 0} without
\* raising and the draft order is still POSTed, with no applied_discount on
\* any line item.
C11_LookupFailureStillPosts ==
    \A r \in Req :
        ProfileFailed(r) =>
           /\ resolved[r] = NoTier
           /\ response[r].status \in {0, 200}
           /\ Len(calls[r]) >= 2 /\ calls[r][2].to = "post"
           /\ Len(calls[r][2].body.line_items) = Len(body[r].items)
           /\ \A li \in Range(calls[r][2].body.line_items) :
                 "applied_discount" \notin DOMAIN li

\* C11 witness: a customer due a discount whose profile read failed got the
\* order created, undiscounted.
C11_Witness ==
    \E r \in Req :
        /\ ProfileFailed(r)
        /\ DueDiscount(r) > 0
        /\ pc[r] = "done" /\ response[r].status = 200
        /\ \E d \in Range(drafts) :
              /\ d.by = r
              /\ \A li \in Range(d.data.line_items) : "applied_discount" \notin DOMAIN li

\* the validated requests that carry no customer id
Guests == {r \in Req : body[r].customer_id = "" /\ Validate(body[r].items) = "ok"}

\* C12: without a customer id getCustomerTier returns {none, 0} at once: the
\* request contacts neither the profile store nor the configuration store,
\* its first call is the order-creation POST, and its arrival leaves the
\* cache as it was.
C12_GuestMakesNoLookup ==
    /\ [](\A r \in Guests :
            pc[r] # "idle" =>
               /\ resolved[r] = NoTier
               /\ calls[r] # << >>
               /\ \A i \in 1..Len(calls[r]) : calls[r][i].to = "post"
               /\ themesReads[r] = 0 /\ assetReads[r] = 0
               /\ checkedAt[r] = -1 /\ storedAt[r] = -1
               /\ cachedFrom.by # r)
    /\ [][\A r \in Guests :
            pc[r] = "idle" /\ pc'[r] # "idle" =>
               /\ pc'[r] = "post"
               /\ UNCHANGED cacheVars]_vars

\* C12 witness: a guest's order was created while the cache held a config
\* another request had loaded.
C12_Witness ==
    \E r \in Guests :
        /\ pc[r] = "done" /\ response[r].status = 200
        /\ CallsTo(r) = <<"post">>
        /\ cachedTierConfig # NoConfig /\ cachedFrom.by # r

(***************************************************************************)
(* Claims about the discount as a function of the spend.                   *)
(***************************************************************************)
\* the discount the code resolves for a customer without tags who spent a
UntaggedDiscount(cfg, a) ==
    ResolveTier([totalSpent |-> a, customerTags |-> <<"">>], cfg).discount

\* a customer without tags is never tag-overridden unless a tier's tag is empty
NoOverride(cfg, tags) == TagOverride(cfg, tags) = 0

\* C13: for every config getTierConfig returns and any two customers without
\* tag override, the discount depends on totalSpent alone and does not
\* decrease when totalSpent grows.
C13_DiscountMonotone ==
    \A r \in Resolved :
        /\ NoOverride(tierConfig[r], customer[r].customerTags)
        /\ NoOverride(tierConfig[r], <<"">>)
        => \A a \in SpentVals :
              /\ a = customer[r].totalSpent =>
                    UntaggedDiscount(tierConfig[r], a) = resolved[r].discount
              /\ a <= customer[r].totalSpent =>
                    UntaggedDiscount(tierConfig[r], a) <= resolved[r].discount
              /\ a >= customer[r].totalSpent =>
                    UntaggedDiscount(tierConfig[r], a) >= resolved[r].discount

\* the tiers that are first, in scan order, among the tiers of their threshold
FirstOfThreshold(tiers) ==
    {i \in 1..Len(tiers) : \A j \in 1..(i - 1) : tiers[j].threshold # tiers[i].threshold}

\* discounts are not negative and, over the tiers first of their threshold,
\* grow with the threshold
OrderedDiscounts(tiers) ==
    /\ \A i \in 1..Len(tiers) : tiers[i].discount >= 0
    /\ \A i \in FirstOfThreshold(tiers), j \in FirstOfThreshold(tiers) :
          tiers[i].threshold <= tiers[j].threshold => tiers[i].discount <= tiers[j].discount

\* C13 amended: the same for the default config and for the loaded configs
\* whose discounts are ordered like their thresholds.
C13_MonotoneWhenOrdered ==
    \A r \in Resolved :
        /\ NoOverride(tierConfig[r], customer[r].customerTags)
        /\ NoOverride(tierConfig[r], <<"">>)
        /\ OrderedDiscounts(tierConfig[r].tiers)
        => \A a \in SpentVals :
              /\ a = customer[r].totalSpent =>
                    UntaggedDiscount(tierConfig[r], a) = resolved[r].discount
              /\ a <= customer[r].totalSpent =>
                    UntaggedDiscount(tierConfig[r], a) <= resolved[r].discount
              /\ a >= customer[r].totalSpent =>
                    UntaggedDiscount(tierConfig[r], a) >= resolved[r].discount

\* C13 witness: under a loaded config with ordered discounts, a tagged
\* customer without override sits strictly between a lower and a higher
\* discount of smaller and larger spends.
C13_Witness ==
    \E r \in Resolved :
        /\ cfgVia[r] = "fetch"
        /\ OrderedDiscounts(tierConfig[r].tiers)
        /\ NoOverride(tierConfig[r], customer[r].customerTags)
        /\ NoOverride(tierConfig[r], <<"">>)
        /\ customer[r].customerTags # <<"">>
        /\ \E a \in SpentVals, b \in SpentVals :
              /\ a < customer[r].totalSpent /\ customer[r].totalSpent < b
              /\ UntaggedDiscount(tierConfig[r], a) < resolved[r].discount
              /\ resolved[r].discount < UntaggedDiscount(tierConfig[r], b)

(***************************************************************************)
(* Claims about the remote order store.                                    *)
(***************************************************************************)
\* the draft orders the shop created from POSTs of request r
DraftsOf(r) == {i \in 1..Len(drafts) : drafts[i].by = r}

\* the request has ended with an error response
EndedInError(r) == pc[r] = "done" /\ response[r].status >= 400

\* C14: whenever a request ends with an error response, the remote order
\* store holds no draft order created by that request.
C14_NoOrderOnFailure ==
    \A r \in Req : EndedInError(r) => DraftsOf(r) = {}

\* C14, where it does hold: the requests every attempt of which the shop
\* refused (400 from validation, 429, another 4xx).
C14_RefusedLeavesNoOrder ==
    \A r \in Req :
        /\ EndedInError(r)
        /\ \A i \in 1..Len(outcomes[r]) : outcomes[r][i] \in {429, 422}
        => DraftsOf(r) = {}

(***************************************************************************)
(* Claims about races on the tier-config cache.                            *)
(***************************************************************************)
\* the requests whose asset read was served
Fetched == {r \in Req : readAt[r] >= 0}

\* every caller holds the default or the config built from one asset read
CallersHoldWholeSnapshots ==
    \A r \in Returned :
        \/ cfgVia[r] \in FailureKinds /\ tierConfig[r] = getDefaultTierConfig
        \/ \E q \in Fetched : tierConfig[r] = BuildTierConfig(snapshot[q])

\* the cache is empty or holds the config built from one asset read
CacheHoldsWholeSnapshot ==
    \/ cachedTierConfig = NoConfig /\ cachedFrom = NoRead
    \/ /\ cachedFrom.by \in Fetched
       /\ cachedFrom.readAt = readAt[cachedFrom.by]
       /\ cachedTierConfig = BuildTierConfig(snapshot[cachedFrom.by])

\* C15: under every interleaving each caller receives one whole snapshot of a
\* single fetch or the default, the cache holds one whole snapshot, and a
\* refresh never replaces the cached snapshot with one read from the
\* configuration store earlier than the snapshot it replaces.
C15_RaceNeverStale ==
    [][/\ CallersHoldWholeSnapshots'
       /\ CacheHoldsWholeSnapshot'
       /\ cachedFrom'.readAt >= cachedFrom.readAt]_vars

\* C15 amended: callers and the cache hold whole snapshots, and a refresh is
\* last-writer-wins: the request that stores replaces the cache with the
\* config of its own read, whenever that read was made, and returns it.
C15_LastWriterWins ==
    [][/\ CallersHoldWholeSnapshots'
       /\ CacheHoldsWholeSnapshot'
       /\ \A r \in Req :
             storedAt'[r] # storedAt[r] =>
                /\ cachedFrom' = [by |-> r, readAt |-> readAt[r]]
                /\ cachedTierConfig' = BuildTierConfig(snapshot[r])
                /\ tierConfig'[r] = cachedTierConfig'
                /\ cacheExpiry' = now + CACHE_TTL
       /\ cachedFrom' # cachedFrom => \E r \in Req : storedAt'[r] # storedAt[r]]_vars

\* C15 witness: two fetches raced across an admin edit and the one that read
\* the store first stored last: the cache holds its whole, older snapshot.
C15_Witness ==
    \E r1 \in Stored, r2 \in Stored :
        /\ readAt[r1] < readAt[r2]
        /\ snapshot[r1] # snapshot[r2]
        /\ cachedFrom.by = r1
        /\ cachedTierConfig = BuildTierConfig(snapshot[r1])
        /\ tierConfig[r2] = BuildTierConfig(snapshot[r2])

(***************************************************************************)
(* Claims about the attempt cap.                                           *)
(***************************************************************************)
LastOutcome(r) == outcomes[r][Len(outcomes[r])]

\* C16: whatever the answers, createDraftOrderWithRetry issues at most
\* MAX_RETRIES + 1 POSTs, one counter counting the retries of every failure
\* kind, and ends at the answer to the last of them; when a 5xx or a network
\* failure exhausts the retries the error propagated is that attempt's.
C16_AttemptCap ==
    \A r \in Req :
        /\ attempts[r] <= MAX_RETRIES + 1
        /\ Len(Posts(r)) = attempts[r]
        /\ attempts[r] > 0 =>
              /\ retryCount[r] = attempts[r] - 1
              /\ Len(outcomes[r]) = IF pc[r] = "post" THEN retryCount[r]
                                                     ELSE retryCount[r] + 1
        /\ Len(outcomes[r]) = MAX_RETRIES + 1 => pc[r] = "done"
        /\ /\ pc[r] = "done" /\ attempts[r] = MAX_RETRIES + 1
           /\ LastOutcome(r) = 0 \/ LastOutcome(r) >= 500
           => /\ response[r].status = 500
              /\ response[r].message = lastError[r]
              /\ response[r].message.status = LastOutcome(r)
              /\ response[r].message.kind = IF LastOutcome(r) = 0 THEN "network" ELSE "api"

\* C16 witness: a 429, a 5xx and a network failure used up the three retries
\* and the 5xx answering the fourth POST was propagated.
C16_Witness ==
    \E r \in Req :
        /\ outcomes[r] = <<429, 503, 0, 503>>
        /\ pc[r] = "done"
        /\ attempts[r] = MAX_RETRIES + 1
        /\ response[r].message = ApiError(503, "variant not found")

(***************************************************************************)
(* Claims about the order of the remote calls of one request.              *)
(***************************************************************************)
\* the place of each call in the order profile, themes, asset, POST
Rank(to) ==
    CASE to = "customer" -> 1
      [] to = "themes"   -> 2
      [] to = "asset"    -> 3
      [] to = "post"     -> 4

Count(seq, x) == Cardinality({i \in 1..Len(seq) : seq[i] = x})

\* C17: the remote calls of one request are issued one at a time and in the
\* order profile read, configuration reads, POST; the configuration is read
\* only after the profile read succeeded and only on a cache miss; the first
\* POST is issued only once the tier is resolved.
C17_CallsInSequence ==
    /\ [](\A r \in Req :
            LET s == CallsTo(r) IN
            /\ Cardinality(inFlight[r]) <= 1
            /\ inFlight[r] = Awaited(r)
            /\ \A i \in 1..Len(s), j \in 1..Len(s) : i < j => Rank(s[i]) <= Rank(s[j])
            /\ \A c \in {"customer", "themes", "asset"} : Count(s, c) <= 1
            /\ Count(s, "themes") = 1 =>
                  /\ s[1] = "customer" /\ s[2] = "themes"
                  /\ checkedAt[r] >= 0
                  /\ cfgVia[r] # "cache"
            /\ Count(s, "asset") = 1 => Count(s, "themes") = 1 /\ s[3] = "asset"
            /\ cfgVia[r] = "cache" => Count(s, "themes") = 0 /\ Count(s, "asset") = 0
            /\ Count(s, "post") >= 1 =>
                  /\ pc[r] \in {"post", "sleep", "done"}
                  /\ body[r].customer_id # "" => s[1] = "customer"
                  /\ Posts(r)[1].body = DraftOrderData(body[r], resolved[r]))
    /\ [][\A r \in Req :
            Count(CallsTo(r)', "themes") > Count(CallsTo(r), "themes") =>
               /\ pc[r] = "customer_fetch"
               /\ ~CacheValid(cachedTierConfig, cacheExpiry, now)]_vars

\* C17 witness: one request went through all four calls and a retry while
\* the other was served from the cache.
C17_Witness ==
    \E r1 \in Req, r2 \in Req :
        /\ CallsTo(r1) = <<"customer", "themes", "asset", "post", "post">>
        /\ CallsTo(r2) = <<"customer", "post">>
        /\ cfgVia[r2] = "cache"

(***************************************************************************)
(* Claims about the tier config built from the settings.                   *)
(***************************************************************************)
\* the requests whose getTierConfig built its config from the settings read
Loaded == {r \in Req : cfgVia[r] = "fetch"}

TierFields == {"name", "tag", "discount", "threshold"}

\* the default of a sub-field of slot i: the slot's name for name and tag,
\* 0 for discount and threshold
NamedDefault(i, f) == IF f \in {"name", "tag"} THEN DefaultNames[i] ELSE 0

\* the sub-field is there and holds a value (not the empty string, not 0)
Filled(slot, f) ==
    /\ f \in DOMAIN slot
    /\ IF f \in {"name", "tag"} THEN slot[f] # "" ELSE slot[f] # 0

\* C18: each of the 6 loaded tiers takes name, tag, discount and threshold
\* from its own slot's sub-field when present, the slot's default otherwise,
\* and a missing field does not make the load return the default config.
C18_EachFieldFromOwnSlot ==
    \A r \in Loaded :
        /\ \A i \in 1..6 : \A f \in TierFields :
              tierConfig[r].tiers[i][f] =
                 IF f \in DOMAIN snapshot[r].slots[i] THEN snapshot[r].slots[i][f]
                 ELSE NamedDefault(i, f)
        /\ tierConfig[r] # getDefaultTierConfig

\* C18 amended: tiers 1 to 5 take each field from their own sub-field when it
\* holds a value and the default otherwise; tier 6 takes name and tag from
\* its name sub-field, its discount from its discount sub-field, and its
\* threshold is 0 whatever its tag and threshold sub-fields hold; a missing
\* field does not make the load return the default config.
C18_FieldsPerSlot ==
    \A r \in Loaded :
        /\ Len(tierConfig[r].tiers) = 6
        /\ \A i \in 1..5 : \A f \in TierFields :
              tierConfig[r].tiers[i][f] =
                 IF Filled(snapshot[r].slots[i], f) THEN snapshot[r].slots[i][f]
                 ELSE NamedDefault(i, f)
        /\ LET six == snapshot[r].slots[6]
               t == tierConfig[r].tiers[6]
           IN  /\ t.name = IF Filled(six, "name") THEN six.name ELSE "MEMBER"
               /\ t.tag = t.name
               /\ t.discount = IF Filled(six, "discount") THEN six.discount ELSE 0
               /\ t.threshold = 0
        /\ tierConfig[r] # getDefaultTierConfig
        /\ cachedTierConfig # NoConfig

\* C18 witness: a config was loaded from settings that miss a name, a
\* discount and a threshold and whose slot 6 holds a tag and a threshold of
\* its own.
C18_Witness ==
    \E r \in Loaded :
        /\ \E i \in 1..5 : "name" \notin DOMAIN snapshot[r].slots[i]
        /\ \E i \in 1..5 : "discount" \notin DOMAIN snapshot[r].slots[i]
        /\ \E i \in 1..5 : "threshold" \notin DOMAIN snapshot[r].slots[i]
        /\ "tag" \in DOMAIN snapshot[r].slots[6]
        /\ snapshot[r].slots[6].tag # tierConfig[r].tiers[6].tag
        /\ snapshot[r].slots[6].threshold # tierConfig[r].tiers[6].threshold

(***************************************************************************)
(* Claims about what the retries send.                                     *)
(***************************************************************************)
\* C19: the tier of a request is resolved once, before its first POST, and
\* every retry sends the payload of the first attempt: once the first POST is
\* out the request reads neither the profile nor the tier config again,
\* whatever another request stores in the cache meanwhile.
C19_RetriesResendPayload ==
    /\ [](\A r \in Req :
            LET s == CallsTo(r) IN
            /\ \A i \in 1..Len(s), j \in 1..Len(s) : i < j /\ s[i] = "post" => s[j] = "post"
            /\ \A c \in {"customer", "themes", "asset"} : Count(s, c) <= 1
            /\ \A i \in 1..Len(Posts(r)) :
                  /\ Posts(r)[i].body = Posts(r)[1].body
                  /\ Posts(r)[i].body = DraftOrderData(body[r], resolved[r])
            /\ \A i \in DraftsOf(r) : drafts[i].data = Posts(r)[1].body)
    /\ [][\A r \in Req :
            attempts[r] >= 1 =>
               /\ resolved'[r] = resolved[r]
               /\ customer'[r] = customer[r]
               /\ tierConfig'[r] = tierConfig[r]
               /\ payload'[r] = payload[r]
               /\ checkedAt'[r] = checkedAt[r]
               /\ themesReads'[r] = themesReads[r]
               /\ assetReads'[r] = assetReads[r]]_vars

\* C19 witness: while a request waited in a backoff delay another request
\* stored a config under which its customer resolves to another tier; the
\* retry sent the first payload again.
C19_Witness ==
    \E r \in Req :
        /\ Len(Posts(r)) >= 2
        /\ cfgVia[r] = "fetch"
        /\ cachedFrom.by # r
        /\ failedAt[r] < storedAt[cachedFrom.by]
        /\ storedAt[cachedFrom.by] <= issuedAt[r]
        /\ ResolveTier(customer[r], cachedTierConfig) # resolved[r]
        /\ Posts(r)[Len(Posts(r))].body = Posts(r)[1].body

(***************************************************************************)
(* Claims about the number of draft orders of a request.                   *)
(***************************************************************************)
Succeeded(r) == pc[r] = "done" /\ response[r].status = 200

\* the 200 answer names draft order i
Returns(r, i) ==
    /\ response[r].draft_order_id = drafts[i].id
    /\ response[r].invoice_url = drafts[i].invoice_url
    /\ response[r].total_price = drafts[i].total_price

\* C20: whatever the remote answers, at most one draft order is created for a
\* request, and a request answered with success has exactly one, the one
\* whose id, invoice URL and total price it returns.
C20_AtMostOneDraft ==
    \A r \in Req :
        /\ Cardinality(DraftsOf(r)) <= 1
        /\ Succeeded(r) =>
              /\ Cardinality(DraftsOf(r)) = 1
              /\ \A i \in DraftsOf(r) : Returns(r, i)

\* C20, where it does hold: a request answered with success returns the
\* draft order its last POST created, and a request all of whose failed
\* attempts the shop refused (429, another 4xx) has no other.
C20_SuccessReturnsLastDraft ==
    \A r \in Req :
        Succeeded(r) =>
           /\ DraftsOf(r) # {}
           /\ \E i \in DraftsOf(r) :
                 /\ \A j \in DraftsOf(r) : j <= i
                 /\ Returns(r, i)
                 /\ drafts[i].data = Posts(r)[Len(Posts(r))].body
           /\ (\A k \in 1..(Len(outcomes[r]) - 1) : outcomes[r][k] \in {429, 422})
              => Cardinality(DraftsOf(r)) = 1

=============================================================================
